---- MODULE Spec2Model ----
(***************************************************************************)
(* Model of ykman-gui/py/yubikey.py: the Controller's PIV operations, the  *)
(* authorization helpers _piv_verify_pin / _piv_ensure_authenticated, the  *)
(* result builders success / failure and the PromptTimeout scope with its  *)
(* timer thread.  The PIV session of the attached device is modelled by    *)
(* the Dev* operators, at the places where the code calls it.              *)
(* Spec runs the PIV operations on one attached device; DeviceSpec runs    *)
(* refresh, write_config, program_otp and serial_modhex while devices are  *)
(* plugged, unplugged and swapped.                                         *)
(***************************************************************************)
EXTENDS Integers, Sequences, FiniteSets, TLC

(***************************************************************************)
(* Bounds of the model.                                                    *)
(***************************************************************************)
\* number of top-level controller calls in one behaviour
MaxCalls == 4
\* of which calls that open a PromptTimeout scope
MaxScopes == 1
\* the PIN retry counter the device is configured with
MaxPinTries == 3

(***************************************************************************)
(* Program constants.                                                      *)
(***************************************************************************)
\* len(mgm_key_hex) != 48
MgmKeyHexLen == 48
\* len(new_key) != 24
MgmKeyLen == 24

(***************************************************************************)
(* Python values.  None is a value of its own; a str argument is a         *)
(* sequence of one-character strings.  Opt wraps "None or a str".          *)
(***************************************************************************)
None == "None"
NoneArg == [isNone |-> TRUE, s |-> <<>>]
Str(s) == [isNone |-> FALSE, s |-> s]
\* `if x:` on None or a str
Truthy(a) == ~a.isNone /\ Len(a.s) > 0
\* `if pin:` on a PIN (None, "" or a PIN string)
TruthyPin(p) == p \notin {None, ""}
Rep(c, n) == [i \in 1..n |-> c]
Min(a, b) == IF a < b THEN a ELSE b
\* Python slice s[a:b] of a str
Slice(s, a, b) == SubSeq(s, a + 1, Min(b, Len(s)))

(***************************************************************************)
(* dicts: functions from keys to values.  The empty dict stands for a      *)
(* helper's `return None` as well: both are falsy under `if x:`.           *)
(***************************************************************************)
EmptyDict == [k \in {} |-> FALSE]
DictSet(d, k, v) == [x \in DOMAIN d \cup {k} |-> IF x = k THEN v ELSE d[x]]
Falsy(d) == DOMAIN d = {}
Has(d, k) == k \in DOMAIN d

\* success(result): result['success'] = True
SuccessOn(result) == DictSet(result, "success", TRUE)
\* (mutant: an error_id already in the dict is kept)
FailureOnKeepId(err_id, result) ==
    IF Has(result, "error_id") THEN DictSet(result, "success", FALSE)
    ELSE DictSet(DictSet(result, "success", FALSE), "error_id", err_id)
\* failure(err_id, result): result['success'] = False; result['error_id'] = err_id
FailureOn(err_id, result) == DictSet(DictSet(result, "success", FALSE), "error_id", err_id)
\* unknown_failure(exception)
UnknownFailure(msg) == FailureOn(None, [error_message |-> msg])

(***************************************************************************)
(* binascii.a2b_hex                                                        *)
(***************************************************************************)
HexDigits == {"0", "1", "a", "A", "f"}
HexVal(c) == CASE c = "0" -> 0 [] c = "1" -> 1 [] c \in {"a", "A"} -> 10 [] c = "f" -> 15
A2bHexOk(s) == Len(s) % 2 = 0 /\ \A i \in 1..Len(s) : s[i] \in HexDigits
A2bHex(s) == [i \in 1..(Len(s) \div 2) |-> 16 * HexVal(s[2 * i - 1]) + HexVal(s[2 * i])]

(***************************************************************************)
(* The expiration date of piv_generate_certificate: int() of three slices  *)
(* and datetime.datetime(year, month, day); ValueError when one fails.     *)
(***************************************************************************)
DecDigits == {"0", "1", "2", "3", "9"}
DecVal(c) == CASE c = "0" -> 0 [] c = "1" -> 1 [] c = "2" -> 2 [] c = "3" -> 3 [] c = "9" -> 9
\* int(s) raises ValueError on an empty str or on a character that is no digit
IntOk(s) == Len(s) > 0 /\ \A i \in 1..Len(s) : s[i] \in DecDigits
RECURSIVE IntOf(_)
IntOf(s) == IF Len(s) = 0 THEN 0 ELSE 10 * IntOf(SubSeq(s, 1, Len(s) - 1)) + DecVal(s[Len(s)])
IsLeap(y) == y % 4 = 0 /\ (y % 100 # 0 \/ y % 400 = 0)
DaysInMonth(y, m) ==
    IF m = 2 THEN (IF IsLeap(y) THEN 29 ELSE 28)
    ELSE IF m \in {4, 6, 9, 11} THEN 30 ELSE 31
\* datetime.datetime(year, month, day) raises ValueError outside these ranges
DatetimeOk(y, m, d) == y >= 1 /\ y <= 9999 /\ m >= 1 /\ m <= 12 /\ d >= 1 /\ d <= DaysInMonth(y, m)
YearStr(date) == Slice(date, 0, 4)
MonthStr(date) == Slice(date, 5, 7)
DayStr(date) == Slice(date, 8, 10)
\* the try block of lines 461-465 completes without ValueError
ParseDateOk(date) ==
    /\ IntOk(YearStr(date)) /\ IntOk(MonthStr(date)) /\ IntOk(DayStr(date))
    /\ DatetimeOk(IntOf(YearStr(date)), IntOf(MonthStr(date)), IntOf(DayStr(date)))

(***************************************************************************)
(* The attached device and the PIV session on the open connection.         *)
(*   dev:  pinTries  PIN retry counter          pin      the PIN           *)
(*         mgmKey    management key (bytes)     protected pivman flag      *)
(*         slotKey / slotCert / chuid  ids of the slot's key, of the key   *)
(*         the stored certificate is for (0: none), of the CHUID object    *)
(*   sess: pinVerified / mgmAuth  what the device accepted on this session *)
(* A machine state m threads dev, sess, the log of device calls of the     *)
(* current top-level call, and the default dicts of success and failure.   *)
(***************************************************************************)
NoExc == [exc |-> "none", sw |-> "none"]
InvalidPinError == [exc |-> "InvalidPinError", sw |-> "none"]
ApduError(sw) == [exc |-> "ApduError", sw |-> sw]
OtherError(name) == [exc |-> name, sw |-> "none"]
Raised(r) == r.e.exc # "none"

\* an id unlike the one stored: a fresh key, certificate or CHUID value
Fresh(old) == IF old = 1 THEN 2 ELSE 1

FreshSession == [pinVerified |-> FALSE, mgmAuth |-> FALSE]
Logged(m, op, ok) ==
    [m EXCEPT !.calls = Append(@, [op |-> op, ok |-> ok,
                                  pinV |-> m.sess.pinVerified, mgmA |-> m.sess.mgmAuth])]

\* session.verify_pin(pin)
DevVerifyPin(m, pin) ==
    IF m.dev.pinTries > 0 /\ pin = m.dev.pin
    THEN [m |-> [Logged(m, "verify_pin", TRUE) EXCEPT !.dev.pinTries = MaxPinTries,
                                                     !.sess.pinVerified = TRUE],
          e |-> NoExc]
    ELSE [m |-> [Logged(m, "verify_pin", FALSE) EXCEPT
                    !.dev.pinTries = IF @ > 0 THEN @ - 1 ELSE 0,
                    !.sess.pinVerified = FALSE],
          e |-> InvalidPinError]

\* session.authenticate(mgm_key_bytes)
DevAuthenticate(m, key) ==
    IF key = m.dev.mgmKey
    THEN [m |-> [Logged(m, "authenticate", TRUE) EXCEPT !.sess.mgmAuth = TRUE], e |-> NoExc]
    ELSE [m |-> [Logged(m, "authenticate", FALSE) EXCEPT !.sess.mgmAuth = FALSE],
          e |-> ApduError("SECURITY_CONDITION_NOT_SATISFIED")]

\* session.generate_key(slot, key_type): needs management authentication
DevGenerateKey(m) ==
    IF m.sess.mgmAuth
    THEN [m |-> [Logged(m, "generate_key", TRUE) EXCEPT !.dev.slotKey = Fresh(@)], e |-> NoExc]
    ELSE [m |-> Logged(m, "generate_key", FALSE),
          e |-> ApduError("SECURITY_CONDITION_NOT_SATISFIED")]

\* generate_self_signed_certificate / generate_csr: the slot's key signs, which
\* needs a verified PIN
DevSign(m) ==
    IF m.sess.pinVerified
    THEN [m |-> Logged(m, "sign", TRUE), e |-> NoExc]
    ELSE [m |-> Logged(m, "sign", FALSE), e |-> ApduError("SECURITY_CONDITION_NOT_SATISFIED")]

\* session.put_certificate(slot, cert): needs management authentication
DevPutCertificate(m) ==
    IF m.sess.mgmAuth
    THEN [m |-> [Logged(m, "put_certificate", TRUE) EXCEPT !.dev.slotCert = m.dev.slotKey], e |-> NoExc]
    ELSE [m |-> Logged(m, "put_certificate", FALSE),
          e |-> ApduError("SECURITY_CONDITION_NOT_SATISFIED")]

\* session.put_object(OBJECT_ID.CHUID, generate_chuid())
DevPutChuid(m) ==
    IF m.sess.mgmAuth
    THEN [m |-> [Logged(m, "put_object", TRUE) EXCEPT !.dev.chuid = Fresh(@)], e |-> NoExc]
    ELSE [m |-> Logged(m, "put_object", FALSE),
          e |-> ApduError("SECURITY_CONDITION_NOT_SATISFIED")]

\* session.delete_certificate(slot)
DevDeleteCertificate(m) ==
    IF m.sess.mgmAuth
    THEN [m |-> [Logged(m, "delete_certificate", TRUE) EXCEPT !.dev.slotCert = 0], e |-> NoExc]
    ELSE [m |-> Logged(m, "delete_certificate", FALSE),
          e |-> ApduError("SECURITY_CONDITION_NOT_SATISFIED")]

(***************************************************************************)
(* Controller._piv_verify_pin and Controller._piv_ensure_authenticated.    *)
(* They return [m, ret]: ret is the failure dict, or the empty dict for    *)
(* the implicit `return None`.                                             *)
(***************************************************************************)
\* failure(err_id) on the shared default dict
FailureDefault(m, err_id) ==
    LET d == FailureOn(err_id, m.fdef) IN [m |-> [m EXCEPT !.fdef = d], ret |-> d]
\* success() on the shared default dict
SuccessDefault(m) ==
    LET d == SuccessOn(m.sdef) IN [m |-> [m EXCEPT !.sdef = d], ret |-> d]

PivVerifyPin(m, pin) ==
    IF TruthyPin(pin)
    THEN \* try: session.verify_pin(pin)  except: pass
         [m |-> DevVerifyPin(m, pin).m, ret |-> EmptyDict]
    ELSE FailureDefault(m, "pin_required")

\* (mutant: the length test of line 669 left out)
PivEnsureAuthenticatedNoLength(m, pin, mgm_key_hex) ==
    IF m.dev.protected
    THEN PivVerifyPin(m, pin)
    ELSE IF Truthy(mgm_key_hex)
         THEN IF ~A2bHexOk(mgm_key_hex.s)
              THEN FailureDefault(m, "mgm_key_bad_format")
              ELSE [m |-> DevAuthenticate(m, A2bHex(mgm_key_hex.s)).m, ret |-> EmptyDict]
         ELSE FailureDefault(m, "mgm_key_required")

\* (mutant: the management key is asked for whatever the device's mode)
PivEnsureAuthenticatedNoMode(m, pin, mgm_key_hex) ==
    IF Truthy(mgm_key_hex)
    THEN IF Len(mgm_key_hex.s) # MgmKeyHexLen \/ ~A2bHexOk(mgm_key_hex.s)
         THEN FailureDefault(m, "mgm_key_bad_format")
         ELSE [m |-> DevAuthenticate(m, A2bHex(mgm_key_hex.s)).m, ret |-> EmptyDict]
    ELSE FailureDefault(m, "mgm_key_required")

PivEnsureAuthenticated(m, pin, mgm_key_hex) ==
    IF m.dev.protected
    THEN PivVerifyPin(m, pin)
    ELSE IF Truthy(mgm_key_hex)
         THEN IF Len(mgm_key_hex.s) # MgmKeyHexLen
              THEN FailureDefault(m, "mgm_key_bad_format")
              ELSE IF ~A2bHexOk(mgm_key_hex.s)
                   THEN FailureDefault(m, "mgm_key_bad_format")
                   ELSE \* try: session.authenticate(...)  except: pass
                        [m |-> DevAuthenticate(m, A2bHex(mgm_key_hex.s)).m, ret |-> EmptyDict]
         ELSE FailureDefault(m, "mgm_key_required")

(***************************************************************************)
(* catch_error: what the wrapper returns for an exception e that leaves    *)
(* the wrapped method.                                                     *)
(***************************************************************************)
CatchError(m, e) ==
    IF e.exc = "EstablishContextException"
    THEN FailureDefault(m, "pcsc_establish_context_failed")
    ELSE IF e.exc = "ValueError"
         THEN FailureDefault(m, "open_device_failed")
         ELSE [m |-> m, ret |-> UnknownFailure(e.exc)]

(***************************************************************************)
(* Inputs.                                                                 *)
(***************************************************************************)
DefaultPin == "123456"
OtherPin == "654321"
\* a new PIN the device refuses for its format
ShortPin == "12"
PinArgs == {None, "", DefaultPin, OtherPin}
GoodKeyHex == Rep("a", MgmKeyHexLen)
WrongKeyHex == Rep("1", MgmKeyHexLen)
MgmKeyArgs ==
    { NoneArg, Str(<<>>),
      Str(Rep("A", MgmKeyHexLen)), Str(WrongKeyHex),
      Str(Rep("a", MgmKeyHexLen - 1)), Str(Rep("a", MgmKeyHexLen + 2)),
      Str(Rep("a", MgmKeyHexLen - 1) \o <<"z">>) }
DateArgs ==
    { <<"2", "0", "3", "0", "-", "0", "1", "-", "3", "1">>,
      <<"2", "0", "3", "0", "-", "0", "2", "-", "3", "0">>,
      <<"2", "0", "3", "0", "0", "1", "0", "1">> }

(***************************************************************************)
(* State.                                                                  *)
(***************************************************************************)
VARIABLES
    dev,        \* the attached device
    sess,       \* the PIV session of the open connection
    calls,      \* device calls issued by the current / last top-level call
    sdef,       \* the default `result` dict of success()
    fdef,       \* the default `result` dict of failure()
    pc,         \* where the controller thread is
    op,         \* the current / last top-level call: name, arguments, locals
    result,     \* what the last top-level call returned
    nCalls,     \* top-level calls made
    nScopes,    \* PromptTimeout scopes opened; the current scope is nScopes
    scopes,     \* per scope: its Timer thread and the notifications sent
    pinLog,     \* tries_left of the failed piv_change_pin calls since the last success
    host        \* the USB bus, the device's configuration, the Controller's cache
                \* (_state, _dev_info) and the device connections

vars == <<dev, sess, calls, sdef, fdef, pc, op, result, nCalls, nScopes, scopes, pinLog, host>>

M == [dev |-> dev, sess |-> sess, calls |-> calls, sdef |-> sdef, fdef |-> fdef]
SetM(m) ==
    /\ dev' = m.dev /\ sess' = m.sess /\ calls' = m.calls
    /\ sdef' = m.sdef /\ fdef' = m.fdef
\* with self._open_device() as conn: session = PivSession(conn)
Opened(m) == [m EXCEPT !.sess = FreshSession, !.calls = <<>>]

\* the record of a top-level call: its arguments, and the locals that live across steps
NoOp ==
    [name |-> "none", pin |-> None, mgm_key_hex |-> NoneArg, expiration_date |-> <<>>,
     self_sign |-> TRUE, csr_file_url |-> FALSE, old_pin |-> None, new_pin |-> None, new_key_hex |-> NoneArg,
     auth_failed |-> EmptyDict, ret |-> EmptyDict, exc |-> NoExc, pre |-> <<>>,
     refused |-> NoExc, fault |-> FALSE, is_cert |-> FALSE, is_private_key |-> FALSE,
     lock_code |-> NoneArg, usb_applications |-> {}, nfc_applications |-> {},
     key |-> NoneArg, upload |-> FALSE, registry |-> <<>>, answer |-> "ok",
     scanned |-> <<>>, before |-> <<>>]
NewScope == [timer |-> "new", finished |-> FALSE, log |-> <<>>, armedAtExit |-> FALSE]

(***************************************************************************)
(* host: what is outside the PIV application.                              *)
(*   attached   devices on the bus          serial  the device's serial    *)
(*   usb / nfc  enabled applications        lock    its configuration lock *)
(*   otp        1 once the OTP slot has been configured                    *)
(*   _state / _dev_info   the Controller's cached fingerprint and snapshot *)
(*   open       connections open now        opens   opened by this call    *)
(*   overlap    a connection was opened while another was open             *)
(*   lastRefresh  the scan and the result of the call before, if it was a  *)
(*              refresh                                                    *)
(***************************************************************************)
NoRefresh == <<>>
\* None in _state and in _dev_info
NoCache == <<>>
Host0 ==
    [attached |-> 1, serial |-> 1, usb |-> {"OTP", "PIV"}, nfc |-> {}, lock |-> <<>>,
     otp |-> 0, _state |-> NoCache, _dev_info |-> NoCache,
     open |-> 0, opens |-> 0, overlap |-> FALSE, lastRefresh |-> NoRefresh]

\* (mutant: a connection is never released)
ConnCloseNever(h) == h

\* connect_to_device(...) returned a connection / `with` or close() released it
ConnOpen(h) == [h EXCEPT !.open = @ + 1, !.opens = @ + 1, !.overlap = @ \/ h.open > 0]
ConnClose(h) == [h EXCEPT !.open = @ - 1]
\* a top-level call other than refresh begins
CallStart(h) == [h EXCEPT !.lastRefresh = NoRefresh]
\* connect_to_device finds exactly one device; otherwise it raises ValueError
Attached == host.attached = 1

Init ==
    /\ host = Host0
    /\ dev \in [pinTries : {MaxPinTries}, pin : {DefaultPin}, mgmKey : {A2bHex(GoodKeyHex)},
                protected : BOOLEAN, slotKey : {0}, slotCert : {0}, chuid : {0}]
    /\ sess = FreshSession
    /\ calls = <<>>
    /\ sdef = EmptyDict
    /\ fdef = EmptyDict
    /\ pc = "idle"
    /\ op = NoOp
    /\ result = EmptyDict
    /\ nCalls = 0
    /\ nScopes = 0
    /\ scopes = [s \in 1..MaxScopes |-> NewScope]
    /\ pinLog = <<>>

(***************************************************************************)
(* PromptTimeout and its threading.Timer.                                  *)
(*   timer: "new" created, "waiting" started and in its waiting stage,     *)
(*          "executing" the interval has passed with `finished` not set    *)
(*          and _touch_prompt is being called, "done" the thread is over.  *)
(***************************************************************************)
\* PromptTimeout.__enter__: self.timer.start()
PromptEnter(sc) == [sc EXCEPT !.timer = "waiting"]
\* _close_touch_prompt(), the first statement of PromptTimeout.__exit__
\* (armedAtExit notes whether the timer was still waiting when __exit__ began)
PromptExitClose(sc) ==
    [sc EXCEPT !.log = Append(@, "touchNotRequired"), !.armedAtExit = (sc.timer = "waiting")]
\* (mutant: __exit__ without self.timer.cancel())
PromptExitNoCancel(sc) == sc

\* self.timer.cancel(), the second statement: sets `finished`; a timer still
\* in its waiting stage wakes up and ends without calling the function
PromptExitCancel(sc) ==
    [sc EXCEPT !.finished = TRUE, !.timer = IF @ = "waiting" THEN "done" ELSE @]

\* Timer.run: the interval has passed and `finished` is not set
TimerFire(s) ==
    /\ s <= nScopes
    /\ scopes[s].timer = "waiting"
    /\ ~scopes[s].finished
    /\ scopes' = [scopes EXCEPT ![s].timer = "executing"]
    /\ UNCHANGED <<dev, sess, calls, sdef, fdef, pc, op, result, nCalls, nScopes, pinLog, host>>

\* Timer.run calls _touch_prompt: pyotherside.send('touchRequired')
TimerEmit(s) ==
    /\ s <= nScopes
    /\ scopes[s].timer = "executing"
    /\ scopes' = [scopes EXCEPT ![s].timer = "done", ![s].finished = TRUE,
                                ![s].log = Append(@, "touchRequired")]
    /\ UNCHANGED <<dev, sess, calls, sdef, fdef, pc, op, result, nCalls, nScopes, pinLog, host>>

ScopeExitClose ==
    /\ pc = "exit_close"
    /\ scopes' = [scopes EXCEPT ![nScopes] = PromptExitClose(@)]
    /\ pc' = "exit_cancel"
    /\ UNCHANGED <<dev, sess, calls, sdef, fdef, op, result, nCalls, nScopes, pinLog, host>>

ScopeExitCancel ==
    /\ pc = "exit_cancel"
    /\ scopes' = [scopes EXCEPT ![nScopes] = PromptExitCancel(@)]
    /\ pc' = IF op.name = "piv_generate_certificate" /\ op.exc.exc = "none"
             THEN "gen_rest" ELSE "return"
    /\ UNCHANGED <<dev, sess, calls, sdef, fdef, op, result, nCalls, nScopes, pinLog, host>>

(***************************************************************************)
(* Controller.piv_generate_certificate                                     *)
(***************************************************************************)
\* session.put_certificate on a device whose certificate storage is full
DevPutCertificateNoSpace(m) ==
    [m |-> Logged(m, "put_certificate", FALSE), e |-> ApduError("NO_SPACE")]

\* (mutant: every ApduError of the try block is answered pin_required)
SignAndStoreAnyRefusal(m, a) ==
    LET Refused(r) ==
            IF r.e.exc = "ApduError"
            THEN FailureDefault(r.m, "pin_required") @@ [e |-> NoExc, refused |-> r.e]
            ELSE [m |-> r.m, ret |-> EmptyDict, e |-> r.e, refused |-> r.e]
        sg == DevSign(m)
    IN  IF Raised(sg) THEN Refused(sg)
        ELSE IF a.self_sign
             THEN LET pc1 == IF a.fault THEN DevPutCertificateNoSpace(sg.m)
                             ELSE DevPutCertificate(sg.m) IN
                  IF Raised(pc1) THEN Refused(pc1)
                  ELSE LET po == DevPutChuid(pc1.m) IN
                       IF Raised(po) THEN Refused(po)
                       ELSE [m |-> po.m, ret |-> EmptyDict, e |-> NoExc]
             ELSE IF a.csr_file_url
                  THEN [m |-> sg.m, ret |-> EmptyDict, e |-> NoExc]
                  ELSE [m |-> sg.m, ret |-> EmptyDict, e |-> OtherError("UnboundLocalError")]

\* lines 480-499: the try block and its `except ApduError`; `refused` is the
\* exception the device call raised.  a.fault: the certificate storage is full
SignAndStore(m, a) ==
    LET Refused(r) ==
            IF r.e.exc = "ApduError" /\ r.e.sw = "SECURITY_CONDITION_NOT_SATISFIED"
            THEN FailureDefault(r.m, "pin_required") @@ [e |-> NoExc, refused |-> r.e]
            ELSE [m |-> r.m, ret |-> EmptyDict, e |-> r.e, refused |-> r.e]
        sg == DevSign(m)
    IN  IF Raised(sg) THEN Refused(sg)
        ELSE IF a.self_sign
             THEN LET pc1 == IF a.fault THEN DevPutCertificateNoSpace(sg.m)
                             ELSE DevPutCertificate(sg.m) IN
                  IF Raised(pc1) THEN Refused(pc1)
                  ELSE LET po == DevPutChuid(pc1.m) IN
                       IF Raised(po) THEN Refused(po)
                       ELSE [m |-> po.m, ret |-> EmptyDict, e |-> NoExc]
             ELSE \* open(file_path, 'w+b'): file_path is bound only `if csr_file_url`
                  IF a.csr_file_url
                  THEN [m |-> sg.m, ret |-> EmptyDict, e |-> NoExc]
                  ELSE [m |-> sg.m, ret |-> EmptyDict, e |-> OtherError("UnboundLocalError")]

\* lines 452-501: from `if auth_failed` to the end; [m, ret, e] with e the
\* exception that leaves the method, if any
GenerateAfterAuth(m, a) ==
    IF ~Falsy(a.auth_failed)
    THEN [m |-> m, ret |-> a.auth_failed, e |-> NoExc]
    ELSE LET v1 == PivVerifyPin(m, a.pin) IN
         IF ~Falsy(v1.ret)
         THEN v1 @@ [e |-> NoExc]
         ELSE IF a.self_sign /\ ~ParseDateOk(a.expiration_date)
              THEN [m |-> v1.m,
                    ret |-> FailureOn("invalid_iso8601_date", [date |-> a.expiration_date]),
                    e |-> NoExc]
              ELSE LET g == DevGenerateKey(v1.m) IN
                   IF Raised(g)
                   THEN [m |-> g.m, ret |-> EmptyDict, e |-> g.e]
                   ELSE LET v2 == PivVerifyPin(g.m, a.pin) IN
                        IF ~Falsy(v2.ret)
                        THEN v2 @@ [e |-> NoExc]
                        ELSE LET st == SignAndStore(v2.m, a) IN
                             IF Raised(st) \/ ~Falsy(st.ret)
                             THEN st
                             ELSE SuccessDefault(st.m) @@ [e |-> NoExc]

\* what the wrapped method hands to the caller: its return value, or
\* catch_error's translation of the exception
Outcome(r) == IF Raised(r) THEN CatchError(r.m, r.e) ELSE [m |-> r.m, ret |-> r.ret]

\* the wrapped method returns `ret` to as_json
Returned(ret) ==
    /\ result' = ret
    /\ pc' = "returned"

\* as_json: json.dumps of the result goes to the caller; the call is over, its
\* arguments, locals, result dict and connection are gone
AsJson ==
    /\ pc = "returned"
    /\ pc' = "idle"
    /\ op' = NoOp
    /\ result' = EmptyDict
    /\ sess' = FreshSession
    /\ calls' = <<>>
    /\ host' = [host EXCEPT !.opens = 0]
    /\ UNCHANGED <<dev, sdef, fdef, nCalls, nScopes, scopes, pinLog>>

\* entry, up to PromptTimeout().__enter__().  An argument is drawn by the step
\* that first reads it: until then its value is not observed.
PivGenerateCertificateCall ==
    /\ pc = "idle"
    /\ Attached
    /\ host' = ConnOpen(CallStart(host))
    /\ nCalls < MaxCalls
    /\ nScopes < MaxScopes
    /\ nCalls' = nCalls + 1
    /\ nScopes' = nScopes + 1
    /\ SetM(Opened(M))
    /\ op' = [NoOp EXCEPT !.name = "piv_generate_certificate", !.pre = dev]
    /\ scopes' = [scopes EXCEPT ![nScopes + 1] = PromptEnter(NewScope)]
    /\ pc' = "gen_scope"
    /\ result' = EmptyDict
    /\ pinLog' = <<>>

\* the scoped block: auth_failed = self._piv_ensure_authenticated(...);
\* `fault`: the device stops answering and get_pivman_data raises.
\* _piv_ensure_authenticated reads `pin` only on a protected-key device and
\* `mgm_key_hex` only on an explicit-key device.
PivGenerateCertificateAuth(pin, mgm_key_hex, fault) ==
    /\ pc = "gen_scope"
    /\ dev.protected => mgm_key_hex = NoneArg
    /\ ~dev.protected => pin = None
    /\ IF fault
       THEN /\ op' = [op EXCEPT !.exc = OtherError("CardConnectionException")]
            /\ UNCHANGED <<dev, sess, calls, sdef, fdef>>
       ELSE LET r == PivEnsureAuthenticated(M, pin, mgm_key_hex) IN
            /\ SetM(r.m)
            /\ op' = [op EXCEPT !.pin = pin, !.mgm_key_hex = mgm_key_hex,
                                !.auth_failed = r.ret]
    /\ pc' = "exit_close"
    /\ UNCHANGED <<result, nCalls, nScopes, scopes, pinLog, host>>

\* after the scope, to the return.  `if auth_failed: return auth_failed` reads
\* no argument; otherwise `pin` is read here (a second time on a protected-key
\* device) with the remaining arguments.
PivGenerateCertificateRest(pin, expiration_date, self_sign, csr_file_url, fault) ==
    /\ pc = "gen_rest"
    /\ ~Falsy(op.auth_failed) => (pin = op.pin /\ ~self_sign /\ ~csr_file_url)
    /\ op.pre.protected => pin = op.pin
    /\ fault => (Falsy(op.auth_failed) /\ self_sign /\ ParseDateOk(expiration_date))
    /\ LET a == [op EXCEPT !.pin = pin, !.expiration_date = expiration_date,
                           !.self_sign = self_sign, !.csr_file_url = csr_file_url,
                           !.fault = fault]
           g == GenerateAfterAuth(M, a)
           r == Outcome(g)
       IN  /\ op' = [a EXCEPT !.refused = IF "refused" \in DOMAIN g THEN g.refused ELSE NoExc]
           /\ SetM(r.m)
           /\ Returned(r.ret)
    /\ scopes' = [scopes EXCEPT ![nScopes].log = Append(@, "returned")]
    /\ host' = ConnClose(host)
    /\ UNCHANGED <<nCalls, nScopes, pinLog>>

\* a call whose scoped block returned or raised leaves the method
ReturnFromScope ==
    /\ pc = "return"
    /\ LET r == Outcome([m |-> M, ret |-> op.ret, e |-> op.exc]) IN
       /\ SetM(r.m)
       /\ Returned(r.ret)
    /\ scopes' = [scopes EXCEPT ![nScopes].log = Append(@, "returned")]
    /\ host' = ConnClose(host)
    /\ UNCHANGED <<op, nCalls, nScopes, pinLog>>

(***************************************************************************)
(* Controller.piv_delete_certificate                                       *)
(***************************************************************************)
\* the scoped block, lines 428-435
DeleteBody(m, pin, mgm_key_hex) ==
    LET au == PivEnsureAuthenticated(m, pin, mgm_key_hex) IN
    IF ~Falsy(au.ret)
    THEN au @@ [e |-> NoExc]
    ELSE LET d == DevDeleteCertificate(au.m) IN
         IF Raised(d) THEN [m |-> d.m, ret |-> EmptyDict, e |-> d.e]
         ELSE LET po == DevPutChuid(d.m) IN
              IF Raised(po) THEN [m |-> po.m, ret |-> EmptyDict, e |-> po.e]
              ELSE SuccessDefault(po.m) @@ [e |-> NoExc]

PivDeleteCertificateCall ==
    /\ pc = "idle"
    /\ Attached
    /\ host' = ConnOpen(CallStart(host))
    /\ nCalls < MaxCalls
    /\ nScopes < MaxScopes
    /\ nCalls' = nCalls + 1
    /\ nScopes' = nScopes + 1
    /\ SetM(Opened(M))
    /\ op' = [NoOp EXCEPT !.name = "piv_delete_certificate", !.pre = dev]
    /\ scopes' = [scopes EXCEPT ![nScopes + 1] = PromptEnter(NewScope)]
    /\ pc' = "del_scope"
    /\ result' = EmptyDict
    /\ pinLog' = <<>>

PivDeleteCertificateBody(pin, mgm_key_hex, fault) ==
    /\ pc = "del_scope"
    /\ dev.protected => mgm_key_hex = NoneArg
    /\ ~dev.protected => pin = None
    /\ IF fault
       THEN /\ op' = [op EXCEPT !.exc = OtherError("CardConnectionException")]
            /\ UNCHANGED <<dev, sess, calls, sdef, fdef>>
       ELSE LET r == DeleteBody(M, pin, mgm_key_hex) IN
            /\ SetM(r.m)
            /\ op' = [op EXCEPT !.pin = pin, !.mgm_key_hex = mgm_key_hex,
                                !.ret = r.ret, !.exc = r.e]
    /\ pc' = "exit_close"
    /\ UNCHANGED <<result, nCalls, nScopes, scopes, pinLog, host>>

(***************************************************************************)
(* Controller.piv_change_pin                                               *)
(***************************************************************************)
\* session.change_pin(old_pin, new_pin).  `formatFirst`: a device given a wrong
\* old PIN together with a malformed new one may answer either for the format
\* (counter untouched) or for the wrong PIN.
DevChangePin(m, old_pin, new_pin, formatFirst) ==
    IF m.dev.pinTries = 0
    THEN [m |-> Logged(m, "change_pin", FALSE), e |-> InvalidPinError]
    ELSE IF new_pin = ShortPin /\ (old_pin = m.dev.pin \/ formatFirst)
         THEN [m |-> Logged(m, "change_pin", FALSE), e |-> ApduError("INCORRECT_PARAMETERS")]
         ELSE IF old_pin = m.dev.pin
              THEN [m |-> [Logged(m, "change_pin", TRUE) EXCEPT
                              !.dev.pin = new_pin, !.dev.pinTries = MaxPinTries],
                    e |-> NoExc]
              ELSE [m |-> [Logged(m, "change_pin", FALSE) EXCEPT !.dev.pinTries = @ - 1],
                    e |-> InvalidPinError]

\* session.get_pin_attempts()
DevGetPinAttempts(m) == m.dev.pinTries

\* (mutant: tries_left read before the attempt instead of after it)
ChangePinStaleTries(m, old_pin, new_pin, formatFirst) ==
    LET c == DevChangePin(m, old_pin, new_pin, formatFirst) IN
    IF ~Raised(c)
    THEN SuccessDefault(c.m) @@ [e |-> NoExc]
    ELSE IF c.e.exc = "InvalidPinError"
         THEN [m |-> c.m,
               ret |-> FailureOn("wrong_pin", [tries_left |-> DevGetPinAttempts(m)]),
               e |-> NoExc]
         ELSE FailureDefault(c.m, "incorrect_parameters") @@ [e |-> NoExc]

ChangePin(m, old_pin, new_pin, formatFirst) ==
    LET c == DevChangePin(m, old_pin, new_pin, formatFirst) IN
    IF ~Raised(c)
    THEN SuccessDefault(c.m) @@ [e |-> NoExc]
    ELSE IF c.e.exc = "InvalidPinError"
         THEN [m |-> c.m,
               ret |-> FailureOn("wrong_pin", [tries_left |-> DevGetPinAttempts(c.m)]),
               e |-> NoExc]
         ELSE IF c.e.sw = "INCORRECT_PARAMETERS"
              THEN FailureDefault(c.m, "incorrect_parameters") @@ [e |-> NoExc]
              ELSE [m |-> c.m,
                    ret |-> [success |-> FALSE, tries_left |-> DevGetPinAttempts(c.m)],
                    e |-> NoExc]

PivChangePin(old_pin, new_pin, formatFirst) ==
    /\ pc = "idle"
    /\ Attached
    /\ host' = ConnClose(ConnOpen(CallStart(host)))
    /\ nCalls < MaxCalls
    /\ nCalls' = nCalls + 1
    /\ op' = [NoOp EXCEPT !.name = "piv_change_pin", !.old_pin = old_pin,
                          !.new_pin = new_pin, !.pre = dev]
    /\ LET r == Outcome(ChangePin(Opened(M), old_pin, new_pin, formatFirst)) IN
       /\ SetM(r.m)
       /\ Returned(r.ret)
       /\ pinLog' = IF r.ret.success THEN <<>>
                    ELSE IF Has(r.ret, "tries_left") THEN Append(pinLog, r.ret.tries_left)
                    ELSE pinLog
    /\ UNCHANGED <<nScopes, scopes>>

(***************************************************************************)
(* Controller.piv_change_mgm_key                                           *)
(***************************************************************************)
\* `with self._open_piv() as piv_controller:` -- Controller defines no _open_piv,
\* so the attribute lookup raises AttributeError before anything else happens
ChangeMgmKey(m, pin, current_key_hex, new_key_hex, store_on_device) ==
    [m |-> m, ret |-> EmptyDict, e |-> OtherError("AttributeError")]

PivChangeMgmKey(pin, current_key_hex, new_key_hex, store_on_device) ==
    /\ pc = "idle"
    /\ host' = CallStart(host)
    /\ nCalls < MaxCalls
    /\ nCalls' = nCalls + 1
    /\ op' = [NoOp EXCEPT !.name = "piv_change_mgm_key", !.pin = pin,
                          !.mgm_key_hex = current_key_hex, !.new_key_hex = new_key_hex,
                          !.pre = dev]
    /\ LET r == Outcome(ChangeMgmKey([M EXCEPT !.calls = <<>>], pin, current_key_hex,
                                     new_key_hex, store_on_device)) IN
       /\ SetM(r.m)
       /\ Returned(r.ret)
    /\ pinLog' = <<>>
    /\ UNCHANGED <<nScopes, scopes>>

(***************************************************************************)
(* Controller.refresh                                                      *)
(***************************************************************************)
\* devices on the bus in one behaviour
MaxDevices == 2

\* scan_devices(): the devices found and the fingerprint of what was found
ScanDevices(h) == [n_devs |-> h.attached, state |-> <<h.attached, h.serial>>]

\* lines 128-151: the DeviceInfo dict built from `info` and `device`
DevInfo(h) ==
    [serial |-> h.serial, usb_enabled |-> h.usb, nfc_enabled |-> h.nfc,
     configuration_locked |-> (h.lock # <<>>)]

\* (mutant: the fingerprint comparison of line 118 left out)
RefreshAlways(m, h, connFails) ==
    LET sc == ScanDevices(h) IN
    IF sc.n_devs # 1
    THEN FailureDefault(m, "multiple_devices") @@ [h |-> h]
    ELSE IF connFails
         THEN FailureDefault(m, "no_device")
                  @@ [h |-> [h EXCEPT !._state = NoCache, !._dev_info = NoCache]]
         ELSE LET h1 == ConnClose(ConnOpen([h EXCEPT !._state = sc.state]))
                  h2 == [h1 EXCEPT !._dev_info = DevInfo(h)]
              IN  [m |-> m, h |-> h2, ret |-> SuccessOn([dev |-> h2._dev_info])]

\* (mutant: the cache is written before the device count is tested)
RefreshEager(m, h, connFails) ==
    LET sc == ScanDevices(h) IN
    IF sc.n_devs # 1
    THEN FailureDefault(m, "multiple_devices")
             @@ [h |-> [h EXCEPT !._state = sc.state]]
    ELSE IF sc.state # h._state
         THEN IF connFails
              THEN FailureDefault(m, "no_device")
                       @@ [h |-> [h EXCEPT !._state = NoCache, !._dev_info = NoCache]]
              ELSE LET h1 == ConnClose(ConnOpen([h EXCEPT !._state = sc.state]))
                       h2 == [h1 EXCEPT !._dev_info = DevInfo(h)]
                   IN  [m |-> m, h |-> h2, ret |-> SuccessOn([dev |-> h2._dev_info])]
         ELSE [m |-> m, h |-> h, ret |-> SuccessOn([dev |-> h._dev_info])]

\* the body of refresh: [m, h, ret].  `connFails`: connect_to_device (or the
\* close) raises, as when the device is busy or leaves after the scan
RefreshBody(m, h, connFails) ==
    LET sc == ScanDevices(h) IN
    IF sc.n_devs # 1
    THEN FailureDefault(m, "multiple_devices") @@ [h |-> h]
    ELSE IF sc.state # h._state
         THEN IF connFails
              THEN FailureDefault(m, "no_device")
                       @@ [h |-> [h EXCEPT !._state = NoCache, !._dev_info = NoCache]]
              ELSE LET h1 == ConnClose(ConnOpen([h EXCEPT !._state = sc.state]))
                       h2 == [h1 EXCEPT !._dev_info = DevInfo(h)]
                   IN  [m |-> m, h |-> h2, ret |-> SuccessOn([dev |-> h2._dev_info])]
         ELSE [m |-> m, h |-> h, ret |-> SuccessOn([dev |-> h._dev_info])]

\* `connFails` is drawn only by a call that reaches connect_to_device
Refresh(connFails) ==
    /\ pc = "idle"
    /\ nCalls < MaxCalls
    /\ nCalls' = nCalls + 1
    /\ connFails => (ScanDevices(host).n_devs = 1 /\ ScanDevices(host).state # host._state)
    /\ op' = [NoOp EXCEPT !.name = "refresh", !.fault = connFails,
                          !.scanned = ScanDevices(host), !.before = host]
    /\ LET r == RefreshBody([M EXCEPT !.calls = <<>>], host, connFails) IN
       /\ SetM(r.m)
       /\ host' = [r.h EXCEPT !.lastRefresh = [scanned |-> ScanDevices(host), ret |-> r.ret]]
       /\ Returned(r.ret)
    /\ UNCHANGED <<nScopes, scopes, pinLog>>

(***************************************************************************)
(* The bus between two calls.                                              *)
(***************************************************************************)
Plug ==
    /\ pc = "idle"
    /\ host.attached < MaxDevices
    /\ host' = [host EXCEPT !.attached = @ + 1]
    /\ UNCHANGED <<dev, sess, calls, sdef, fdef, pc, op, result, nCalls, nScopes, scopes, pinLog>>

Unplug ==
    /\ pc = "idle"
    /\ host.attached > 0
    /\ host' = [host EXCEPT !.attached = @ - 1]
    /\ UNCHANGED <<dev, sess, calls, sdef, fdef, pc, op, result, nCalls, nScopes, scopes, pinLog>>

\* the one device is replaced by its twin with the other serial number
Swap ==
    /\ pc = "idle"
    /\ host.attached = 1
    /\ host' = [host EXCEPT !.serial = Fresh(@)]
    /\ UNCHANGED <<dev, sess, calls, sdef, fdef, pc, op, result, nCalls, nScopes, scopes, pinLog>>

(***************************************************************************)
(* Controller._open_device for the operations that are one step each.      *)
(***************************************************************************)
\* binascii.Error is a ValueError; so is connect_to_device's "no device"
ValueError(msg) == [exc |-> "ValueError", sw |-> msg]

(***************************************************************************)
(* Controller.write_config                                                 *)
(***************************************************************************)
\* len(lock_code) != 16
LockCodeLen == 16
GoodLockHex == Rep("a", 2 * LockCodeLen)
LockArgs ==
    { NoneArg, Str(<<>>), Str(GoodLockHex), Str(Rep("1", 2 * LockCodeLen)),
      Str(Rep("a", 2 * LockCodeLen - 2)), Str(Rep("a", 2 * LockCodeLen - 1)),
      Str(Rep("a", 2 * LockCodeLen - 1) \o <<"z">>) }
AppArgs == { <<"OTP">>, <<"OTP", "PIV", "OTP">> }

\* usb_enabled |= APPLICATION[app] over the list: the set of the named bits
AppMask(apps) == {apps[i] : i \in DOMAIN apps}

\* session.write_device_config(config, True, lock_code) on the device.
\* `fault`: "apdu" the device refuses the command, "locked" the library
\* raises ValueError('Configuration locked!')
DevWriteDeviceConfig(m, h, usb_enabled, nfc_enabled, code, fault) ==
    IF fault = "apdu"
    THEN [m |-> Logged(m, "write_device_config", FALSE), h |-> h,
          e |-> ApduError("COMMAND_NOT_ALLOWED")]
    ELSE IF fault = "locked"
    THEN [m |-> m, h |-> h, e |-> ValueError("Configuration locked!")]
    ELSE IF h.lock # <<>> /\ code # h.lock
    THEN [m |-> Logged(m, "write_device_config", FALSE), h |-> h,
          e |-> ApduError("VERIFY_FAIL_NO_RETRY")]
    ELSE [m |-> Logged(m, "write_device_config", TRUE),
          h |-> [h EXCEPT !.usb = usb_enabled, !.nfc = nfc_enabled],
          e |-> NoExc]

\* (mutant: a successful write leaves the fingerprint in place)
WriteConfigKeepState(m, h, usb_applications, nfc_applications, lock_code, fault) ==
    IF h.attached # 1
    THEN [m |-> m, h |-> h, ret |-> EmptyDict, e |-> ValueError("no device")]
    ELSE
    LET h1 == ConnOpen(h) IN
    IF Truthy(lock_code) /\ ~A2bHexOk(lock_code.s)
    THEN [m |-> m, h |-> ConnClose(h1), ret |-> EmptyDict, e |-> ValueError("binascii.Error")]
    ELSE IF Truthy(lock_code) /\ Len(A2bHex(lock_code.s)) # LockCodeLen
    THEN FailureDefault(m, "lock_code_not_16_bytes") @@ [h |-> ConnClose(h1), e |-> NoExc]
    ELSE
    LET code == IF Truthy(lock_code) THEN A2bHex(lock_code.s) ELSE <<>>
        w == DevWriteDeviceConfig(m, h1, AppMask(usb_applications),
                                  AppMask(nfc_applications), code, fault)
    IN  IF ~Raised(w)
        THEN SuccessDefault(w.m) @@ [h |-> ConnClose(w.h), e |-> NoExc]
        ELSE IF w.e.exc = "ApduError" /\ w.e.sw = "VERIFY_FAIL_NO_RETRY"
        THEN FailureDefault(w.m, "wrong_lock_code") @@ [h |-> ConnClose(w.h), e |-> NoExc]
        ELSE IF w.e.exc = "ValueError" /\ w.e.sw = "Configuration locked!"
        THEN FailureDefault(w.m, "interface_config_locked")
                 @@ [h |-> ConnClose(w.h), e |-> NoExc]
        ELSE [m |-> w.m, h |-> ConnClose(w.h), ret |-> EmptyDict, e |-> w.e]

\* the body of write_config: [m, h, ret, e]; every way out of the `with`
\* block closes the connection
WriteConfig(m, h, usb_applications, nfc_applications, lock_code, fault) ==
    IF h.attached # 1
    THEN [m |-> m, h |-> h, ret |-> EmptyDict, e |-> ValueError("no device")]
    ELSE
    LET h1 == ConnOpen(h) IN
    IF Truthy(lock_code) /\ ~A2bHexOk(lock_code.s)
    THEN [m |-> m, h |-> ConnClose(h1), ret |-> EmptyDict, e |-> ValueError("binascii.Error")]
    ELSE IF Truthy(lock_code) /\ Len(A2bHex(lock_code.s)) # LockCodeLen
    THEN FailureDefault(m, "lock_code_not_16_bytes") @@ [h |-> ConnClose(h1), e |-> NoExc]
    ELSE
    LET code == IF Truthy(lock_code) THEN A2bHex(lock_code.s) ELSE <<>>
        w == DevWriteDeviceConfig(m, h1, AppMask(usb_applications),
                                  AppMask(nfc_applications), code, fault)
    IN  IF ~Raised(w)
        THEN SuccessDefault(w.m)
                 @@ [h |-> ConnClose([w.h EXCEPT !._state = NoCache]), e |-> NoExc]
        ELSE IF w.e.exc = "ApduError" /\ w.e.sw = "VERIFY_FAIL_NO_RETRY"
        THEN FailureDefault(w.m, "wrong_lock_code") @@ [h |-> ConnClose(w.h), e |-> NoExc]
        ELSE IF w.e.exc = "ValueError" /\ w.e.sw = "Configuration locked!"
        THEN FailureDefault(w.m, "interface_config_locked")
                 @@ [h |-> ConnClose(w.h), e |-> NoExc]
        ELSE [m |-> w.m, h |-> ConnClose(w.h), ret |-> EmptyDict, e |-> w.e]

\* `fault` is drawn only by a call that reaches write_device_config
WriteConfigCall(usb_applications, nfc_applications, lock_code, fault) ==
    /\ pc = "idle"
    /\ nCalls < MaxCalls
    /\ nCalls' = nCalls + 1
    /\ fault # "none" =>
          /\ host.attached = 1
          /\ Truthy(lock_code) =>
                (A2bHexOk(lock_code.s) /\ Len(A2bHex(lock_code.s)) = LockCodeLen)
    /\ op' = [NoOp EXCEPT !.name = "write_config", !.usb_applications = usb_applications,
                          !.nfc_applications = nfc_applications, !.lock_code = lock_code,
                          !.scanned = ScanDevices(host), !.before = host]
    /\ LET w == WriteConfig([M EXCEPT !.calls = <<>>], CallStart(host), usb_applications,
                            nfc_applications, lock_code, fault)
           r == Outcome(w)
       IN  /\ SetM(r.m)
           /\ host' = w.h
           /\ Returned(r.ret)
    /\ UNCHANGED <<nScopes, scopes, pinLog>>

(***************************************************************************)
(* Controller.program_otp                                                  *)
(***************************************************************************)
KeyArgs == { Str(<<"a", "f">>), Str(<<"a">>), Str(<<"z", "z">>) }
\* what the registry answers to prepare_upload_key
RegistryAnswers ==
    { [kind |-> "url", errors |-> <<>>],
      [kind |-> "PrepareUploadFailed", errors |-> <<"PUBLIC_ID_OCCUPIED">>],
      [kind |-> "PrepareUploadFailed",
       errors |-> <<"PRIVATE_ID_INVALID_LENGTH", "SERIAL_NOT_FOUND">>],
      [kind |-> "URLError", errors |-> <<>>] }
\* what the device answers to put_configuration
WriteAnswers == {"ok", "CommandError", "OSError"}

\* session.put_configuration(slot, YubiOtpSlotConfiguration(...))
DevPutConfiguration(m, h, answer) ==
    IF answer = "ok"
    THEN [m |-> Logged(m, "put_configuration", TRUE), h |-> [h EXCEPT !.otp = 1],
          e |-> NoExc]
    ELSE [m |-> Logged(m, "put_configuration", FALSE), h |-> h, e |-> OtherError(answer)]

\* lines 293-306, with the connection open
ProgramOtpWrite(m, h, upload_url, answer) ==
    LET w == DevPutConfiguration(m, h, answer) IN
    IF ~Raised(w)
    THEN [m |-> w.m, h |-> ConnClose(w.h), ret |-> SuccessOn([upload_url |-> upload_url]),
          e |-> NoExc]
    ELSE IF w.e.exc = "CommandError"
         THEN FailureDefault(w.m, "write error") @@ [h |-> ConnClose(w.h), e |-> NoExc]
         ELSE [m |-> w.m, h |-> ConnClose(w.h), ret |-> EmptyDict, e |-> w.e]

\* (mutant: the slot is written before the registry is asked)
ProgramOtpWriteFirst(m, h, key, private_id, upload, registry, answer) ==
    IF ~A2bHexOk(key.s) \/ ~A2bHexOk(private_id.s)
    THEN [m |-> m, h |-> h, ret |-> EmptyDict, e |-> ValueError("binascii.Error")]
    ELSE IF h.attached # 1
    THEN [m |-> m, h |-> h, ret |-> EmptyDict, e |-> ValueError("no device")]
    ELSE
    LET h1 == ConnOpen(h)
        w == ProgramOtpWrite(m, h1, None, answer)
    IN  IF ~upload \/ Raised(w) \/ ~w.ret.success
        THEN w
        ELSE IF h._dev_info = NoCache
        THEN [m |-> w.m, h |-> w.h, ret |-> EmptyDict, e |-> OtherError("TypeError")]
        ELSE IF registry.kind = "PrepareUploadFailed"
        THEN [m |-> Logged(w.m, "prepare_upload_key", FALSE), h |-> w.h,
              ret |-> FailureOn("upload_failed", [upload_errors |-> registry.errors]),
              e |-> NoExc]
        ELSE IF registry.kind # "url"
        THEN [m |-> Logged(w.m, "prepare_upload_key", FALSE), h |-> w.h,
              ret |-> EmptyDict, e |-> OtherError(registry.kind)]
        ELSE [m |-> Logged(w.m, "prepare_upload_key", TRUE), h |-> w.h,
              ret |-> SuccessOn([upload_url |-> "url"]), e |-> NoExc]

\* the body of program_otp: [m, h, ret, e]; public_id is taken to be modhex
ProgramOtp(m, h, key, private_id, upload, registry, answer) ==
    IF ~A2bHexOk(key.s) \/ ~A2bHexOk(private_id.s)
    THEN [m |-> m, h |-> h, ret |-> EmptyDict, e |-> ValueError("binascii.Error")]
    ELSE IF h.attached # 1
    THEN [m |-> m, h |-> h, ret |-> EmptyDict, e |-> ValueError("no device")]
    ELSE
    LET h1 == ConnOpen(h) IN
    IF ~upload
    THEN ProgramOtpWrite(m, h1, None, answer)
    ELSE IF h._dev_info = NoCache
    THEN \* self._dev_info['serial'] on None
         [m |-> m, h |-> ConnClose(h1), ret |-> EmptyDict, e |-> OtherError("TypeError")]
    ELSE IF registry.kind = "PrepareUploadFailed"
    THEN [m |-> Logged(m, "prepare_upload_key", FALSE), h |-> ConnClose(h1),
          ret |-> FailureOn("upload_failed", [upload_errors |-> registry.errors]),
          e |-> NoExc]
    ELSE IF registry.kind # "url"
    THEN [m |-> Logged(m, "prepare_upload_key", FALSE), h |-> ConnClose(h1),
          ret |-> EmptyDict, e |-> OtherError(registry.kind)]
    ELSE ProgramOtpWrite(Logged(m, "prepare_upload_key", TRUE), h1, "url", answer)

\* the registry's and the device's answers are drawn only by a call that
\* reaches them
ProgramOtpCall(key, private_id, upload, registry, answer) ==
    /\ pc = "idle"
    /\ nCalls < MaxCalls
    /\ nCalls' = nCalls + 1
    /\ LET decoded == A2bHexOk(key.s) /\ A2bHexOk(private_id.s)
           asked == decoded /\ host.attached = 1 /\ upload /\ host._dev_info # NoCache
           written == decoded /\ host.attached = 1
                        /\ (upload => (asked /\ registry.kind = "url"))
       IN  /\ ~asked => registry.kind = "url"
           /\ ~written => answer = "ok"
    /\ op' = [NoOp EXCEPT !.name = "program_otp", !.key = key, !.upload = upload,
                          !.registry = registry, !.answer = answer,
                          !.before = host]
    /\ LET w == ProgramOtp([M EXCEPT !.calls = <<>>], CallStart(host), key, private_id,
                           upload, registry, answer)
           r == Outcome(w)
       IN  /\ SetM(r.m)
           /\ host' = w.h
           /\ Returned(r.ret)
    /\ UNCHANGED <<nScopes, scopes, pinLog>>

(***************************************************************************)
(* Controller.serial_modhex                                                *)
(***************************************************************************)
\* a return value that is a str, not a dict
PyStr(s) == [str |-> s]
ModhexAlphabet ==
    <<"c", "b", "d", "e", "f", "g", "h", "i", "j", "k", "l", "n", "r", "t", "u", "v">>
\* modhex_encode(data)
ModhexEncode(data) ==
    [i \in 1..(2 * Len(data)) |->
        ModhexAlphabet[(IF i % 2 = 1 THEN data[(i + 1) \div 2] \div 16
                        ELSE data[i \div 2] % 16) + 1]]
\* struct.pack(b'>I', n)
PackU32(n) == <<(n \div 16777216) % 256, (n \div 65536) % 256, (n \div 256) % 256, n % 256>>

\* the body of serial_modhex: [m, h, ret, e]
SerialModhex(m, h) ==
    IF h.attached # 1
    THEN [m |-> m, h |-> h, ret |-> EmptyDict, e |-> ValueError("no device")]
    ELSE [m |-> Logged(m, "get_serial", TRUE), h |-> ConnClose(ConnOpen(h)),
          ret |-> PyStr(ModhexEncode(<<255, 0>> \o PackU32(h.serial))), e |-> NoExc]

SerialModhexCall ==
    /\ pc = "idle"
    /\ nCalls < MaxCalls
    /\ nCalls' = nCalls + 1
    /\ op' = [NoOp EXCEPT !.name = "serial_modhex", !.before = host]
    /\ LET w == SerialModhex([M EXCEPT !.calls = <<>>], CallStart(host))
           r == Outcome(w)
       IN  /\ SetM(r.m)
           /\ host' = w.h
           /\ Returned(r.ret)
    /\ UNCHANGED <<nScopes, scopes, pinLog>>

(***************************************************************************)
(* Controller.piv_import_file                                              *)
(***************************************************************************)
\* the id of the key in the file, and of the key its certificate is for
FileKeyId == 3

\* session.put_key(slot, private_key): needs management authentication
DevPutKey(m) ==
    IF m.sess.mgmAuth
    THEN [m |-> [Logged(m, "put_key", TRUE) EXCEPT !.dev.slotKey = FileKeyId], e |-> NoExc]
    ELSE [m |-> Logged(m, "put_key", FALSE),
          e |-> ApduError("SECURITY_CONDITION_NOT_SATISFIED")]

\* session.put_certificate(slot, cert_to_import)
DevPutFileCertificate(m) ==
    IF m.sess.mgmAuth
    THEN [m |-> [Logged(m, "put_certificate", TRUE) EXCEPT !.dev.slotCert = FileKeyId],
          e |-> NoExc]
    ELSE [m |-> Logged(m, "put_certificate", FALSE),
          e |-> ApduError("SECURITY_CONDITION_NOT_SATISFIED")]

\* (mutant: a certificate is stored without the CHUID being updated)
ImportStoreNoChuid(m, is_cert, is_private_key) ==
    LET k == IF is_private_key THEN DevPutKey(m) ELSE [m |-> m, e |-> NoExc] IN
    IF Raised(k) THEN k
    ELSE IF ~is_cert THEN k
         ELSE DevPutFileCertificate(k.m)

\* lines 619-630: store what parsed
ImportStore(m, is_cert, is_private_key) ==
    LET k == IF is_private_key THEN DevPutKey(m) ELSE [m |-> m, e |-> NoExc] IN
    IF Raised(k) THEN k
    ELSE IF ~is_cert THEN k
         ELSE LET c == DevPutFileCertificate(k.m) IN
              IF Raised(c) THEN c ELSE DevPutChuid(c.m)

\* (mutant: the flags of the result tell what the caller asked for, a
\* certificate, whatever parsed)
ImportBodyFlags(m, pin, mgm_key, is_cert, is_private_key) ==
    LET au == PivEnsureAuthenticated(m, pin, mgm_key) IN
    IF ~Falsy(au.ret)
    THEN au @@ [e |-> NoExc]
    ELSE LET st == ImportStore(au.m, is_cert, is_private_key) IN
         IF Raised(st) THEN [m |-> st.m, ret |-> EmptyDict, e |-> st.e]
         ELSE [m |-> st.m,
               ret |-> SuccessOn([imported_cert |-> TRUE, imported_key |-> FALSE]),
               e |-> NoExc]

\* the scoped block, lines 615-630, and the result of line 631
ImportBody(m, pin, mgm_key, is_cert, is_private_key) ==
    LET au == PivEnsureAuthenticated(m, pin, mgm_key) IN
    IF ~Falsy(au.ret)
    THEN au @@ [e |-> NoExc]
    ELSE LET st == ImportStore(au.m, is_cert, is_private_key) IN
         IF Raised(st) THEN [m |-> st.m, ret |-> EmptyDict, e |-> st.e]
         ELSE [m |-> st.m,
               ret |-> SuccessOn([imported_cert |-> is_cert,
                                  imported_key |-> is_private_key]),
               e |-> NoExc]

\* entry: the file is read and parsed; a file that parsed goes on to
\* _open_device and PromptTimeout().__enter__()
PivImportFileCall(is_cert, is_private_key) ==
    /\ pc = "idle"
    /\ nCalls < MaxCalls
    /\ nCalls' = nCalls + 1
    /\ op' = [NoOp EXCEPT !.name = "piv_import_file", !.is_cert = is_cert,
                          !.is_private_key = is_private_key, !.pre = dev, !.before = host]
    /\ pinLog' = <<>>
    /\ IF ~(is_cert \/ is_private_key)
       THEN LET r == FailureDefault([M EXCEPT !.calls = <<>>], "failed_parsing") IN
            /\ SetM(r.m)
            /\ Returned(r.ret)
            /\ host' = CallStart(host)
            /\ UNCHANGED <<nScopes, scopes>>
       ELSE IF ~Attached
       THEN LET r == CatchError([M EXCEPT !.calls = <<>>], ValueError("no device")) IN
            /\ SetM(r.m)
            /\ Returned(r.ret)
            /\ host' = CallStart(host)
            /\ UNCHANGED <<nScopes, scopes>>
       ELSE /\ nScopes < MaxScopes
            /\ nScopes' = nScopes + 1
            /\ SetM(Opened(M))
            /\ host' = ConnOpen(CallStart(host))
            /\ scopes' = [scopes EXCEPT ![nScopes + 1] = PromptEnter(NewScope)]
            /\ pc' = "imp_scope"
            /\ result' = EmptyDict

PivImportFileBody(pin, mgm_key, fault) ==
    /\ pc = "imp_scope"
    /\ dev.protected => mgm_key = NoneArg
    /\ ~dev.protected => pin = None
    /\ IF fault
       THEN /\ op' = [op EXCEPT !.exc = OtherError("CardConnectionException")]
            /\ UNCHANGED <<dev, sess, calls, sdef, fdef>>
       ELSE LET r == ImportBody(M, pin, mgm_key, op.is_cert, op.is_private_key) IN
            /\ SetM(r.m)
            /\ op' = [op EXCEPT !.pin = pin, !.mgm_key_hex = mgm_key,
                                !.ret = r.ret, !.exc = r.e]
    /\ pc' = "exit_close"
    /\ UNCHANGED <<result, nCalls, nScopes, scopes, pinLog, host>>

(***************************************************************************)
(* The specification.                                                      *)
(***************************************************************************)
Next ==
    \/ PivGenerateCertificateCall
    \/ \E pin \in PinArgs, k \in MgmKeyArgs : PivGenerateCertificateAuth(pin, k, FALSE)
    \/ PivGenerateCertificateAuth(None, NoneArg, TRUE)
    \/ \E pin \in PinArgs, d \in DateArgs, f \in BOOLEAN :
          PivGenerateCertificateRest(pin, d, TRUE, FALSE, f)
    \/ \E pin \in PinArgs, url \in BOOLEAN :
          PivGenerateCertificateRest(pin, <<>>, FALSE, url, FALSE)
    \/ PivDeleteCertificateCall
    \/ \E pin \in PinArgs, k \in MgmKeyArgs : PivDeleteCertificateBody(pin, k, FALSE)
    \/ PivDeleteCertificateBody(None, NoneArg, TRUE)
    \/ \E c \in BOOLEAN, k \in BOOLEAN : PivImportFileCall(c, k)
    \/ \E pin \in PinArgs, k \in MgmKeyArgs : PivImportFileBody(pin, k, FALSE)
    \/ PivImportFileBody(None, NoneArg, TRUE)
    \/ ScopeExitClose
    \/ ScopeExitCancel
    \/ ReturnFromScope
    \/ AsJson
    \/ \E s \in 1..MaxScopes : TimerFire(s)
    \/ \E s \in 1..MaxScopes : TimerEmit(s)
    \/ \E o \in {DefaultPin, OtherPin}, n \in {DefaultPin, OtherPin} : PivChangePin(o, n, FALSE)
    \/ \E o \in {DefaultPin, OtherPin}, f \in BOOLEAN : PivChangePin(o, ShortPin, f)
    \/ \E pin \in {DefaultPin, OtherPin}, ck \in {Str(GoodKeyHex), Str(WrongKeyHex)},
          sod \in BOOLEAN : PivChangeMgmKey(pin, ck, Str(WrongKeyHex), sod)

Spec == Init /\ [][Next]_vars

\* the device operations, with the bus changing between calls and a device
\* whose configuration may be locked
DeviceInit ==
    /\ host \in {[Host0 EXCEPT !.lock = l] : l \in {<<>>, A2bHex(GoodLockHex)}}
    /\ dev = [pinTries |-> MaxPinTries, pin |-> DefaultPin, mgmKey |-> A2bHex(GoodKeyHex),
              protected |-> FALSE, slotKey |-> 0, slotCert |-> 0, chuid |-> 0]
    /\ sess = FreshSession
    /\ calls = <<>>
    /\ sdef = EmptyDict
    /\ fdef = EmptyDict
    /\ pc = "idle"
    /\ op = NoOp
    /\ result = EmptyDict
    /\ nCalls = 0
    /\ nScopes = 0
    /\ scopes = [s \in 1..MaxScopes |-> NewScope]
    /\ pinLog = <<>>

DeviceNext ==
    \/ \E f \in BOOLEAN : Refresh(f)
    \/ \E usb \in AppArgs, l \in LockArgs : WriteConfigCall(usb, <<>>, l, "none")
    \/ \E f \in {"apdu", "locked"} : WriteConfigCall(<<"OTP">>, <<"PIV">>, Str(GoodLockHex), f)
    \/ \E k \in KeyArgs, u \in BOOLEAN, r \in RegistryAnswers, w \in WriteAnswers :
          ProgramOtpCall(k, Str(<<"0", "1">>), u, r, w)
    \/ SerialModhexCall
    \/ AsJson
    \/ Plug
    \/ Unplug
    \/ Swap

DeviceSpec == DeviceInit /\ [][DeviceNext]_vars

(***************************************************************************)
(* Properties.                                                             *)
(***************************************************************************)
Done(name) == pc = "returned" /\ op.name = name
ErrorIs(d, err_id) == Has(d, "error_id") /\ d.error_id = err_id
Count(log, ev) == Cardinality({i \in DOMAIN log : log[i] = ev})
Issued(name) == \E i \in DOMAIN calls : calls[i].op = name
\* the device rejected a PIN verification during the current / last call
PinRejected == \E i \in DOMAIN calls : calls[i].op = "verify_pin" /\ ~calls[i].ok
\* _piv_ensure_authenticated has just run in the scoped block, and what it returned
AfterEnsureAuthenticated ==
    /\ pc = "exit_close"
    /\ op.exc.exc = "none"
AuthRet == IF op.name = "piv_generate_certificate" THEN op.auth_failed ELSE op.ret
\* a str that is not 48 hexadecimal characters
NotKeyHex(k) == ~k.isNone /\ (Len(k.s) # MgmKeyHexLen \/ ~A2bHexOk(k.s))

\* C1: when the device rejects the PIN in _piv_verify_pin, the call reports
\* wrong_pin with tries_left equal to the device's counter after the attempt.
C1_WrongPinReported ==
    (Done("piv_generate_certificate") /\ PinRejected)
        => /\ ErrorIs(result, "wrong_pin")
           /\ Has(result, "tries_left")
           /\ result.tries_left = dev.pinTries

\* C2: piv_generate_certificate issues generate_key only on a session where the
\* device accepted the PIN, and certificate / object writes only on a session
\* where it accepted the management key.
C2_IssuedOnlyWhenAuthorized ==
    op.name = "piv_generate_certificate"
        => \A i \in DOMAIN calls :
              /\ calls[i].op = "generate_key" => calls[i].pinV
              /\ calls[i].op \in {"put_certificate", "put_object", "delete_certificate",
                                  "put_key"} => calls[i].mgmA

\* C3: in every scope, touchNotRequired comes after any touchRequired and before
\* the return to the caller.
C3_RetractionLast ==
    \A s \in 1..nScopes :
        LET log == scopes[s].log IN
        \A i, j \in DOMAIN log :
            /\ (log[i] = "touchNotRequired" /\ log[j] = "touchRequired") => j < i
            /\ (log[i] = "touchNotRequired" /\ log[j] = "returned") => i < j

C5_NoPromptAfterExit ==
    \A s \in 1..nScopes :
        scopes[s].armedAtExit => Count(scopes[s].log, "touchRequired") = 0

\* C6 (as stated): on an explicit-key device every management key string that is
\* not 48 hexadecimal characters fails mgm_key_bad_format, without authenticate.
C6_BadFormatAll ==
    (AfterEnsureAuthenticated /\ ~dev.protected /\ NotKeyHex(op.mgm_key_hex))
        => /\ ErrorIs(AuthRet, "mgm_key_bad_format")
           /\ ~Issued("authenticate")

\* C6 (amended): on an explicit-key device every non-empty management key string
\* that is not 48 hexadecimal characters fails mgm_key_bad_format, the empty
\* string fails mgm_key_required, and neither issues authenticate.
C6_BadFormatNonEmpty ==
    (AfterEnsureAuthenticated /\ ~dev.protected /\ NotKeyHex(op.mgm_key_hex))
        => /\ ErrorIs(AuthRet, IF Len(op.mgm_key_hex.s) = 0 THEN "mgm_key_required"
                                ELSE "mgm_key_bad_format")
           /\ ~Issued("authenticate")

C6_Witness ==
    /\ AfterEnsureAuthenticated
    /\ ~dev.protected
    /\ Len(op.mgm_key_hex.s) = MgmKeyHexLen + 2
    /\ A2bHexOk(op.mgm_key_hex.s)
    /\ ErrorIs(AuthRet, "mgm_key_bad_format")

C9_BadDateNoMutation ==
    ( /\ Done("piv_generate_certificate")
      /\ op.exc.exc = "none"
      /\ op.self_sign /\ ~ParseDateOk(op.expiration_date)
      /\ TruthyPin(op.pin) /\ Truthy(op.mgm_key_hex) /\ ~NotKeyHex(op.mgm_key_hex) )
        => /\ ErrorIs(result, "invalid_iso8601_date")
           /\ dev = op.pre

\* C10: piv_change_mgm_key installs the new key and succeeds when the caller
\* proves authorization and the new key decodes to 24 bytes.
C10_ChangeSucceeds ==
    ( /\ Done("piv_change_mgm_key")
      /\ IF op.pre.protected THEN op.pin = op.pre.pin
         ELSE A2bHexOk(op.mgm_key_hex.s) /\ A2bHex(op.mgm_key_hex.s) = op.pre.mgmKey
      /\ op.pre.pinTries > 0
      /\ A2bHexOk(op.new_key_hex.s) /\ Len(A2bHex(op.new_key_hex.s)) = MgmKeyLen )
        => /\ result.success
           /\ dev.mgmKey = A2bHex(op.new_key_hex.s)

(***************************************************************************)
(* Properties of refresh, write_config, program_otp and piv_import_file.   *)
(***************************************************************************)
\* this refresh follows another refresh and scanned what that one scanned:
\* one device, the same fingerprint
SecondRefresh ==
    /\ Done("refresh")
    /\ op.before.lastRefresh # NoRefresh
    /\ op.scanned.n_devs = 1
    /\ op.before.lastRefresh.scanned = op.scanned

\* C11 (as stated): a refresh that follows a refresh, with one device and the
\* same scanned state, returns what the first returned and opens no connection.
C11_RefreshTwice ==
    SecondRefresh => (result = op.before.lastRefresh.ret /\ host.opens = 0 /\ ~op.fault)

\* C11 (amended): a refresh that follows a refresh that returned a snapshot,
\* with one device and the same scanned state, returns the same snapshot and
\* opens no connection.
C11_RefreshTwiceAfterSuccess ==
    (SecondRefresh /\ op.before.lastRefresh.ret.success)
        => /\ result = op.before.lastRefresh.ret
           /\ result.success
           /\ host.opens = 0
           /\ ~op.fault

C11_Witness ==
    /\ SecondRefresh
    /\ op.before.lastRefresh.ret.success
    /\ result.dev = DevInfo(op.before)
    /\ host.opens = 0

\* C12: a write_config that returns success leaves _state invalidated and one
\* that fails leaves _state and _dev_info as they were; a refresh that finds
\* _state invalidated and one device connects and returns the device's info as
\* it is now.
C12_WriteInvalidates ==
    /\ (Done("write_config") /\ result.success) => host._state = NoCache
    /\ (Done("write_config") /\ ~result.success)
          => (host._state = op.before._state /\ host._dev_info = op.before._dev_info)
    /\ (Done("refresh") /\ op.before._state = NoCache /\ op.scanned.n_devs = 1 /\ ~op.fault)
          => /\ host.opens = 1
             /\ result.success
             /\ result.dev = DevInfo(op.before)
             /\ host._dev_info = DevInfo(op.before)

\* the refresh after a write replaces the snapshot taken before the write
C12_Witness ==
    /\ Done("refresh")
    /\ op.before._state = NoCache
    /\ op.before._dev_info # NoCache
    /\ op.before._dev_info.serial = op.before.serial
    /\ result.success
    /\ result.dev # op.before._dev_info
    /\ host.opens = 1

\* C13: a refresh that finds a number of devices other than one fails, opens no
\* connection and leaves _state and _dev_info as they were.
C13_CountFailureKeepsCache ==
    (Done("refresh") /\ op.scanned.n_devs # 1)
        => /\ ~result.success
           /\ host.opens = 0
           /\ calls = <<>>
           /\ host._state = op.before._state
           /\ host._dev_info = op.before._dev_info

C13_Witness ==
    /\ Done("refresh")
    /\ op.scanned.n_devs = MaxDevices
    /\ host._state # NoCache
    /\ host._dev_info # NoCache
    /\ ErrorIs(result, "multiple_devices")

\* C14: a refresh that finds no device fails with no_device, one that finds
\* several fails with multiple_devices, and neither issues a device call.
C14_CountOutcomes ==
    (Done("refresh") /\ op.scanned.n_devs # 1)
        => /\ ErrorIs(result, IF op.scanned.n_devs = 0 THEN "no_device" ELSE "multiple_devices")
           /\ host.opens = 0
           /\ calls = <<>>

\* C15: write_config on an attached device with a lock code that does not
\* hex-decode to 16 bytes fails with lock_code_not_16_bytes, issues no
\* write_device_config and leaves _state as it was.
C15_BadLockCode ==
    ( /\ Done("write_config")
      /\ op.before.attached = 1
      /\ Truthy(op.lock_code)
      /\ ~(A2bHexOk(op.lock_code.s) /\ Len(A2bHex(op.lock_code.s)) = LockCodeLen) )
        => /\ ErrorIs(result, "lock_code_not_16_bytes")
           /\ ~Issued("write_device_config")
           /\ host._state = op.before._state

\* C16: at most one device connection is open at any moment, none was ever
\* opened while another was open, and none is open between calls or once a
\* call has returned.
C16_OneConnection ==
    /\ host.open <= 1
    /\ ~host.overlap
    /\ pc \in {"idle", "returned"} => host.open = 0

\* a call that opened a connection and left by an exception
C16_Witness ==
    /\ pc = "returned"
    /\ host.opens = 1
    /\ host.open = 0
    /\ op.exc.exc = "CardConnectionException"
    /\ ~result.success

\* C17: what a call returns is a dict with a boolean success and, when success
\* is false, an error_id or an error_message.
C17_StructuredResult ==
    pc = "returned"
        => /\ Has(result, "success")
           /\ result.success \in BOOLEAN
           /\ ~result.success => (Has(result, "error_id") \/ Has(result, "error_message"))

\* C18: program_otp with upload: when the registry refuses the upload the call
\* returns upload_failed with the registry's errors and put_configuration is
\* not issued; when put_configuration fails the call does not return success.
C18_UploadBeforeWrite ==
    (Done("program_otp") /\ op.upload)
        => /\ op.registry.kind = "PrepareUploadFailed"
                => /\ ErrorIs(result, "upload_failed")
                   /\ result.upload_errors = op.registry.errors
                   /\ ~Issued("put_configuration")
                   /\ host.otp = op.before.otp
           /\ (\E i \in DOMAIN calls : calls[i].op = "put_configuration" /\ ~calls[i].ok)
                => (Has(result, "success") /\ ~result.success)

\* the upload went through and the device then refused the write
C18_Witness ==
    /\ Done("program_otp")
    /\ op.upload
    /\ \E i \in DOMAIN calls : calls[i].op = "prepare_upload_key" /\ calls[i].ok
    /\ \E i \in DOMAIN calls : calls[i].op = "put_configuration" /\ ~calls[i].ok
    /\ ErrorIs(result, "write error")

Stored(name) == \E i \in DOMAIN calls : calls[i].op = name /\ calls[i].ok

\* C19: piv_import_file fails with failed_parsing exactly when neither a
\* certificate nor a private key parsed, and then opens no connection; when it
\* returns success, imported_cert and imported_key tell what was stored.
C19_ImportOutcome ==
    Done("piv_import_file")
        => /\ ErrorIs(result, "failed_parsing") <=> ~(op.is_cert \/ op.is_private_key)
           /\ ErrorIs(result, "failed_parsing") => (host.opens = 0 /\ calls = <<>>)
           /\ result.success
                => /\ result.imported_cert = Stored("put_certificate")
                   /\ result.imported_key = Stored("put_key")

C19_Witness ==
    /\ Done("piv_import_file")
    /\ result.success
    /\ result.imported_cert
    /\ ~result.imported_key
    /\ dev.slotCert = FileKeyId
    /\ dev.slotKey # FileKeyId

\* C20: when the device refuses a call of the sign-and-store step of
\* piv_generate_certificate, the result is pin_required exactly if the refusal
\* was "security condition not satisfied", whatever the PIN verifications
\* before it returned.
C20_RefusalAtStore ==
    (Done("piv_generate_certificate") /\ op.refused.exc = "ApduError")
        => (ErrorIs(result, "pin_required")
              <=> op.refused.sw = "SECURITY_CONDITION_NOT_SATISFIED")

C20_Witness ==
    /\ Done("piv_generate_certificate")
    /\ op.refused = ApduError("SECURITY_CONDITION_NOT_SATISFIED")
    /\ TruthyPin(op.pin)
    /\ ErrorIs(result, "pin_required")

(***************************************************************************)
(* Properties of the call sequence, of the CHUID and of the default dicts. *)
(***************************************************************************)
\* the device calls of piv_generate_certificate with self_sign, in the order of
\* lines 447-486; _piv_ensure_authenticated issues authenticate on an
\* explicit-key device and verify_pin on a protected-key one
GenerateOrder(protected) ==
    <<IF protected THEN "verify_pin" ELSE "authenticate",
      "verify_pin", "generate_key", "verify_pin", "sign", "put_certificate", "put_object">>

\* C21: piv_generate_certificate with self_sign issues its device calls in the
\* order authenticate, verify PIN, generate key, verify PIN, sign, store
\* certificate, update CHUID, and issues no call after one that failed.
C21_OrderedStopOnFailure ==
    (op.name = "piv_generate_certificate" /\ op.self_sign)
        => /\ Len(calls) <= Len(GenerateOrder(op.pre.protected))
           /\ \A i \in DOMAIN calls : calls[i].op = GenerateOrder(op.pre.protected)[i]
           /\ \A i \in DOMAIN calls : i < Len(calls) => calls[i].ok

\* C22: a piv_generate_certificate or piv_change_mgm_key call made with an
\* incorrect PIN submits it to the device at most once: at most one verify_pin
\* call, and the retry counter at most one lower than before the call.
C22_WrongPinOnce ==
    ( /\ pc = "returned"
      /\ op.name \in {"piv_generate_certificate", "piv_change_mgm_key"}
      /\ TruthyPin(op.pin) /\ op.pin # op.pre.pin )
        => /\ Cardinality({i \in DOMAIN calls : calls[i].op = "verify_pin"}) <= 1
           /\ dev.pinTries >= op.pre.pinTries - 1

\* the device carried out call i of the current / last top-level call, and that
\* call changed the slot's certificate
CertChanged(i) == calls[i].ok /\ calls[i].op \in {"put_certificate", "delete_certificate"}

\* C23: in piv_delete_certificate, piv_generate_certificate and piv_import_file
\* the call issued right after a certificate was deleted or stored is the CHUID
\* update, and a call that changed the certificate reports success only when
\* the CHUID was updated after the change.
C23_ChuidFollowsCertificate ==
    \A i \in DOMAIN calls :
        CertChanged(i)
            => /\ i < Len(calls) => calls[i + 1].op = "put_object"
               /\ (pc = "returned" /\ Has(result, "success") /\ result.success)
                    => /\ i < Len(calls)
                       /\ calls[i + 1].ok
                       /\ dev.chuid # op.pre.chuid

\* piv_import_file stored the certificate of the file and updated the CHUID
C23_Witness ==
    /\ Done("piv_import_file")
    /\ result.success
    /\ dev.slotCert = FileKeyId
    /\ dev.slotCert # op.pre.slotCert
    /\ dev.chuid # op.pre.chuid
    /\ calls[Len(calls)] = [op |-> "put_object", ok |-> TRUE, pinV |-> FALSE, mgmA |-> TRUE]

\* the err_id values the program passes to failure() with the default dict
ErrIds ==
    {"pcsc_establish_context_failed", "open_device_failed", "incorrect_padding",
     "multiple_devices", "no_device", "lock_code_not_16_bytes", "wrong_lock_code",
     "interface_config_locked", "write error", "pin_required", "incorrect_parameters",
     "new_mgm_key_bad_hex", "new_mgm_key_bad_length", "failed_parsing",
     "mgm_key_bad_format", "mgm_key_required"}

\* C24: whatever calls came before, success() on its default dict gives exactly
\* {success: true} and failure(err_id) on its default dict gives exactly
\* {success: false, error_id: err_id}; a returned success carries no error_id
\* or error_message, and a returned failure that is the default dict carries
\* nothing but success and error_id.
C24_DefaultDictsClean ==
    /\ SuccessDefault(M).ret = [success |-> TRUE]
    /\ \A e \in ErrIds : FailureDefault(M, e).ret = [success |-> FALSE, error_id |-> e]
    /\ (pc = "returned" /\ Has(result, "success"))
          => /\ result.success => (~Has(result, "error_id") /\ ~Has(result, "error_message"))
             /\ (~result.success /\ result = fdef) => DOMAIN result = {"success", "error_id"}

\* a call returns success() after an earlier call returned failure('pin_required')
\* and another success(): both default dicts have been written to
C24_Witness ==
    /\ pc = "returned"
    /\ nCalls >= 3
    /\ result = [success |-> TRUE]
    /\ sdef = [success |-> TRUE]
    /\ fdef = [success |-> FALSE, error_id |-> "pin_required"]

====
